---- MODULE Spec2Model ----
(***************************************************************************)
(* Model of packages/vm/src/memory.rs (Region, validate_region) and        *)
(* packages/vm/src/wasm.rs (impl WasmVM for WasmerInstance, impl Memory    *)
(* for WasmerMemory).                                                      *)
(*                                                                         *)
(* Widths are scaled so that the state space is finite: a byte holds       *)
(* 0..U8_MAX, a u32 is SIZE_OF_U32 little-endian bytes, so                 *)
(* U32_MAX = (U8_MAX+1)^4 - 1, and the host usize is twice as wide.        *)
(* Everything else (the 12-byte record, the order of the fields, the order *)
(* of the checks) is as in the source.                                     *)
(***************************************************************************)
EXTENDS Integers, Sequences, FiniteSets, TLC

VARIABLES
    region,    \* the Region handed to validate_region          (SpecValidate)
    vres,      \* what validate_region returned for it          (SpecValidate)
    mem,       \* guest linear memory: mem[a+1] is the byte at address a (Spec)
    last,      \* the Memory operation a host function has just run: name, arguments,
               \* result, views read and written, memory before it
    metering,  \* wasmer metering globals of the instance       (SpecGas)
    call       \* the last WasmVM operation: name, arguments, result, metering
               \* before it                                    (SpecGas)

vars == <<region, vres, mem, last, metering, call>>

----------------------------------------------------------------------------
(* Bounds and widths *)

\* largest value of a byte (u8::MAX, scaled)
U8_MAX == 1
\* bytes in a u32
SIZE_OF_U32 == 4

Base == U8_MAX + 1
Bytes == 0..U8_MAX
U32_MAX == Base^SIZE_OF_U32 - 1
U32 == 0..U32_MAX
\* the host usize is 64 bits wide: twice the bytes of a u32
USIZE_MAX == Base^(2 * SIZE_OF_U32) - 1
\* size_of::<Region>(): three u32, repr(C), no padding
REGION_SIZE == 3 * SIZE_OF_U32

----------------------------------------------------------------------------
(* Results *)

Ok(v) == [ok |-> TRUE, val |-> v]
Err(e) == [ok |-> FALSE, err |-> e]
\* values are records, so that any two results can be compared
Unit == [unit |-> TRUE]
\* Vec<u8>
Vec(bytes) == [bytes |-> bytes]

\* RegionValidationError
zero_offset == [kind |-> "ZeroOffset"]
length_exceeds_capacity(length, capacity) ==
    [kind |-> "LengthExceedsCapacity", length |-> length, capacity |-> capacity]
out_of_range(offset, capacity) ==
    [kind |-> "OutOfRange", offset |-> offset, capacity |-> capacity]

\* CommunicationError
deref_err(pointer) == [kind |-> "DerefErr", pointer |-> pointer]
region_length_too_big(actual, max) ==
    [kind |-> "RegionLengthTooBig", actual |-> actual, max |-> max]
region_too_small(capacity, requested) ==
    [kind |-> "RegionTooSmall", capacity |-> capacity, requested |-> requested]

\* VmError
conversion_err(input) == [kind |-> "ConversionErr", input |-> input]
gas_depletion == [kind |-> "GasDepletion"]
runtime_err == [kind |-> "RuntimeErr"]
resolve_err == [kind |-> "ResolveErr"]

----------------------------------------------------------------------------
(* memory.rs *)

Region(offset, capacity, length) ==
    [offset |-> offset, capacity |-> capacity, length |-> length]

validate_region_noorder(r) ==
    IF r.length > r.capacity
    THEN Err(length_exceeds_capacity(r.length, r.capacity))
    ELSE IF r.offset = 0
    THEN Err(zero_offset)
    ELSE IF r.capacity > (U32_MAX - r.offset)
    THEN Err(out_of_range(r.offset, r.capacity))
    ELSE Ok(Unit)

validate_region_offbyone(r) ==
    IF r.offset = 0
    THEN Err(zero_offset)
    ELSE IF r.length > r.capacity
    THEN Err(length_exceeds_capacity(r.length, r.capacity))
    ELSE IF r.capacity >= (U32_MAX - r.offset)
    THEN Err(out_of_range(r.offset, r.capacity))
    ELSE Ok(Unit)

validate_region(r) ==
    IF r.offset = 0
    THEN Err(zero_offset)
    ELSE IF r.length > r.capacity
    THEN Err(length_exceeds_capacity(r.length, r.capacity))
    ELSE IF r.capacity > (U32_MAX - r.offset)
    THEN Err(out_of_range(r.offset, r.capacity))
    ELSE Ok(Unit)

----------------------------------------------------------------------------
(* Guest linear memory *)

size(m) == Len(m)

\* the addresses [a, a+n)
Range(a, n) == a..(a + n - 1)

\* one byte of the view; an address outside memory has no cell to read
ByteAt(m, a) == IF a < size(m) THEN m[a + 1] ELSE 0

\* the n bytes of the view at [a, a+n)
RECURSIVE Cells(_, _, _)
Cells(m, a, n) == IF n = 0 THEN <<>> ELSE <<ByteAt(m, a)>> \o Cells(m, a + 1, n - 1)

\* store the bytes bs at [a, a+Len(bs)); an address outside memory has no cell
Store(m, a, bs) ==
    LET k == IF a >= size(m) THEN 0
             ELSE IF Len(bs) <= size(m) - a THEN Len(bs) ELSE size(m) - a
    IN  IF k = 0 THEN m
        ELSE SubSeq(m, 1, a) \o SubSeq(bs, 1, k) \o SubSeq(m, a + k + 1, size(m))

\* a u32 in memory: SIZE_OF_U32 bytes, least significant first
RECURSIVE EncodeBytes(_, _)
EncodeBytes(v, n) ==
    IF n = 0 THEN <<>> ELSE <<v % Base>> \o EncodeBytes(v \div Base, n - 1)

EncodeU32(v) == EncodeBytes(v, SIZE_OF_U32)

RECURSIVE DecodeBytes(_, _, _)
DecodeBytes(m, a, n) ==
    IF n = 0 THEN 0 ELSE ByteAt(m, a) + Base * DecodeBytes(m, a + 1, n - 1)

DecodeU32(m, a) == DecodeBytes(m, a, SIZE_OF_U32)

\* bytes of a Region record: offset, capacity, length, in this order
EncodeRegion(r) == EncodeU32(r.offset) \o EncodeU32(r.capacity) \o EncodeU32(r.length)

\* The views are wasmer's; they are bounds-checked against the current memory size.
\* WasmPtr::<Region>::deref: Some iff the whole record lies inside memory
deref_region_loose(m, ptr) == ptr + REGION_SIZE <= size(m) + 1

deref_region(m, ptr) == ptr + REGION_SIZE <= size(m)

\* WasmPtr::<u8, Array>::deref(memory, 0, length): Some iff
\* [offset, offset+length) lies inside memory
deref_array(m, offset, length) == offset + length <= size(m)

\* Cell<Region>::get
cell_get(m, ptr) ==
    Region(DecodeU32(m, ptr),
           DecodeU32(m, ptr + SIZE_OF_U32),
           DecodeU32(m, ptr + 2 * SIZE_OF_U32))

\* Cell<Region>::set
cell_set(m, ptr, r) == Store(m, ptr, EncodeRegion(r))

\* conversion::to_u32::<usize>
to_u32(input) == IF input <= U32_MAX THEN Ok(input) ELSE Err(conversion_err(input))

----------------------------------------------------------------------------
(* wasm.rs: impl Memory for WasmerMemory                                    *)
(* Each operation yields its result, the memory it leaves, and the views of *)
(* guest memory it read and wrote, in the order it took them.               *)

\* the len cells at [at, at+len) that a dereference handed out and the code used
View(at, len) == [at |-> at, len |-> len]

Out(res, m, rd, wr) == [res |-> res, mem |-> m, reads |-> rd, writes |-> wr]

None == [none |-> TRUE]
Some(v) == [some |-> v]

get_region(m, ptr) ==
    IF deref_region(m, ptr)
    THEN LET r == cell_get(m, ptr)
             v == validate_region(r)
         IN  Out(IF v.ok THEN Ok(r) ELSE Err(v.err), m, <<View(ptr, REGION_SIZE)>>, <<>>)
    ELSE Out(Err(deref_err(ptr)), m, <<>>, <<>>)

set_region(m, ptr, data) ==
    IF deref_region(m, ptr)
    THEN Out(Ok(Unit), cell_set(m, ptr, data), <<>>, <<View(ptr, REGION_SIZE)>>)
    ELSE Out(Err(deref_err(ptr)), m, <<>>, <<>>)

read_region(m, ptr, max_length) ==
    LET g == get_region(m, ptr) IN
    IF ~g.res.ok THEN g
    ELSE LET r == g.res.val
             max == to_u32(max_length)
         IN  IF ~max.ok THEN Out(Err(max.err), m, g.reads, <<>>)
             ELSE IF r.length > max.val
             THEN Out(Err(region_length_too_big(r.length, max_length)), m, g.reads, <<>>)
             ELSE IF deref_array(m, r.offset, r.length)
             THEN Out(Ok(Vec(Cells(m, r.offset, r.length))),
                      m, Append(g.reads, View(r.offset, r.length)), <<>>)
             ELSE Out(Err(deref_err(r.offset)), m, g.reads, <<>>)

maybe_read_region_nonull(m, ptr, max_length) ==
    LET r == read_region(m, ptr, max_length) IN
    IF r.res.ok THEN [r EXCEPT !.res = Ok(Some(r.res.val))] ELSE r

maybe_read_region(m, ptr, max_length) ==
    IF ptr = 0
    THEN Out(Ok(None), m, <<>>, <<>>)
    ELSE LET r == read_region(m, ptr, max_length) IN
         IF r.res.ok THEN [r EXCEPT !.res = Ok(Some(r.res.val))] ELSE r

\* the tail of write_region once the buffer has been dereferenced
write_cells(m, ptr, r, data, rd) ==
    LET m1 == Store(m, r.offset, data)
        r1 == [r EXCEPT !.length = Len(data) % (U32_MAX + 1)]
        s  == set_region(m1, ptr, r1)
    IN  Out(s.res, s.mem, rd, <<View(r.offset, Len(data))>> \o s.writes)

write_region_ge(m, ptr, data) ==
    LET g == get_region(m, ptr) IN
    IF ~g.res.ok THEN g
    ELSE LET r == g.res.val IN
         IF Len(data) >= r.capacity
         THEN Out(Err(region_too_small(r.capacity, Len(data))), m, g.reads, <<>>)
         ELSE IF deref_array(m, r.offset, r.capacity)
         THEN write_cells(m, ptr, r, data, g.reads)
         ELSE Out(Err(deref_err(r.offset)), m, g.reads, <<>>)

write_region_eager(m, ptr, data) ==
    LET g == get_region(m, ptr) IN
    IF ~g.res.ok THEN g
    ELSE LET r == g.res.val IN
         IF deref_array(m, r.offset, r.capacity)
         THEN IF Len(data) > r.capacity
              THEN Out(Err(region_too_small(r.capacity, Len(data))),
                       Store(m, r.offset, SubSeq(data, 1, r.capacity)), g.reads,
                       <<View(r.offset, r.capacity)>>)
              ELSE write_cells(m, ptr, r, data, g.reads)
         ELSE Out(Err(deref_err(r.offset)), m, g.reads, <<>>)

write_region(m, ptr, data) ==
    LET g == get_region(m, ptr) IN
    IF ~g.res.ok THEN g
    ELSE LET r == g.res.val IN
         IF Len(data) > r.capacity
         THEN Out(Err(region_too_small(r.capacity, Len(data))), m, g.reads, <<>>)
         ELSE IF deref_array(m, r.offset, r.capacity)
         THEN write_cells(m, ptr, r, data, g.reads)
         ELSE Out(Err(deref_err(r.offset)), m, g.reads, <<>>)

----------------------------------------------------------------------------
(* wasm.rs: impl WasmVM for WasmerInstance *)

\* largest budget the orchestration sets (u64::MAX, scaled)
MaxGas == 3
\* exported function names a caller may ask for; only "run" is exported
Exports == {"run"}
Names == {"run", "missing"}
\* values a guest function may return
ReturnVals == {<<>>, <<0>>, <<1>>}

\* MeteringPoints
Remaining(count) == [tag |-> "Remaining", count |-> count]
Exhausted == [tag |-> "Exhausted"]

\* wasmer_middlewares::metering::get_remaining_points
get_remaining_points(mt) == IF mt.exhausted THEN Exhausted ELSE Remaining(mt.points)

\* wasmer_middlewares::metering::set_remaining_points
set_remaining_points(mt, new) == [points |-> new, exhausted |-> FALSE]

get_gas_left_leftover(mt) ==
    LET p == get_remaining_points(mt) IN
    IF p.tag = "Remaining" THEN p.count ELSE mt.points + 1

get_gas_left(mt) ==
    LET p == get_remaining_points(mt) IN
    IF p.tag = "Remaining" THEN p.count ELSE 0

set_gas_left(mt, new) == set_remaining_points(mt, new)

\* func.call(args): the guest runs metered code costing `cost` points and then
\* returns rv or traps; a cost above the remaining points exhausts the budget,
\* which traps the call
func_call(mt, cost, traps, rv) ==
    IF cost > mt.points
    THEN [metering |-> [mt EXCEPT !.exhausted = TRUE], res |-> Err("trap")]
    ELSE [metering |-> [mt EXCEPT !.points = mt.points - cost],
          res |-> IF traps THEN Err("trap") ELSE Ok(rv)]

\* the closure given to map_err
map_err_swapped(mt) ==
    IF get_remaining_points(mt).tag = "Remaining" THEN gas_depletion ELSE runtime_err

map_err(mt) ==
    IF get_remaining_points(mt).tag = "Remaining" THEN runtime_err ELSE gas_depletion

call_function(mt, name, cost, traps, rv) ==
    IF name \notin Exports
    THEN [metering |-> mt, res |-> Err(resolve_err), trapped |-> FALSE]
    ELSE LET c == func_call(mt, cost, traps, rv) IN
         [metering |-> c.metering,
          res |-> IF c.res.ok THEN c.res ELSE Err(map_err(c.metering)),
          trapped |-> ~c.res.ok]

----------------------------------------------------------------------------
(* Inputs *)

\* longest data handed to write_region
MaxData == 2
\* size of guest memory when the instance starts, in bytes
InitialMemSize == 14
\* bytes the guest may grow its memory by
MaxGrow == 1

RECURSIVE SeqsUpTo(_)
SeqsUpTo(n) ==
    IF n = 0 THEN {<<>>}
    ELSE SeqsUpTo(n - 1) \cup {s \in [1..n -> Bytes] : TRUE}

Datas == SeqsUpTo(MaxData)

\* what the guest leaves in memory it has not described: byte a holds a % Base
RECURSIVE Fill(_)
Fill(n) == IF n = 0 THEN <<>> ELSE Append(Fill(n - 1), (n - 1) % Base)

\* where the guest puts its Region record, and the pointers it hands to the host
GuestPtrs == {0, 2}
HostPtrs == {0, 2, 3}

\* the fields the guest writes into a Region record
Offsets == {0, 1, SIZE_OF_U32, REGION_SIZE, InitialMemSize - 1, InitialMemSize, U32_MAX}
Capacities == {0, 1, 2, U32_MAX - 1, U32_MAX}
Lengths == {0, 1, 2, U32_MAX}
GuestRegions == {Region(o, c, l) : o \in Offsets, c \in Capacities, l \in Lengths}

\* the limits a host function passes to read_region
MaxLengths == {0, 1, 2, U32_MAX, U32_MAX + 1, USIZE_MAX}

\* the records a host function passes to set_region
HostRegions == {Region(REGION_SIZE, 2, 1), Region(0, 0, 0)}

NoRegion == Region(0, 0, 0)

Idle == [op |-> "none", ptr |-> 0, max_length |-> 0, data |-> <<>>, reg |-> NoRegion,
         res |-> Ok(Unit), reads |-> <<>>, writes |-> <<>>, pre |-> <<>>]

\* no operation has run since control went back to the guest
Returned == last.op = "none"

NoCall == [op |-> "none", name |-> "", new |-> 0, trapped |-> FALSE, rv |-> <<>>,
           res |-> Ok(<<>>), gas |-> 0, before |-> [points |-> 0, exhausted |-> FALSE]]

----------------------------------------------------------------------------
(* The memory accessor under a guest that lays out its memory *)

Init ==
    /\ \E p \in GuestPtrs, r \in GuestRegions :
           mem = cell_set(Fill(InitialMemSize), p, r)
    /\ last = Idle
    /\ region = NoRegion
    /\ vres = <<>>
    /\ metering = [points |-> 0, exhausted |-> FALSE]
    /\ call = NoCall

\* a host function runs one operation at a time, between two stretches of guest code
Done(op, ptr, max_length, data, reg, o) ==
    /\ Returned
    /\ mem' = o.mem
    /\ last' = [op |-> op, ptr |-> ptr, max_length |-> max_length, data |-> data,
                reg |-> reg, res |-> o.res, reads |-> o.reads, writes |-> o.writes,
                pre |-> mem]
    /\ UNCHANGED <<region, vres, metering, call>>

GetRegion ==
    \E ptr \in HostPtrs :
        Done("get_region", ptr, 0, <<>>, NoRegion, get_region(mem, ptr))

SetRegion ==
    \E ptr \in HostPtrs, r \in HostRegions :
        Done("set_region", ptr, 0, <<>>, r, set_region(mem, ptr, r))

ReadRegion ==
    \E ptr \in HostPtrs, n \in MaxLengths :
        Done("read_region", ptr, n, <<>>, NoRegion, read_region(mem, ptr, n))

MaybeReadRegion ==
    \E ptr \in HostPtrs, n \in MaxLengths :
        Done("maybe_read_region", ptr, n, <<>>, NoRegion, maybe_read_region(mem, ptr, n))

WriteRegion ==
    \E ptr \in HostPtrs, data \in Datas :
        Done("write_region", ptr, 0, data, NoRegion, write_region(mem, ptr, data))

\* memory.grow: the guest extends its memory by one zeroed byte
GuestGrow ==
    /\ Returned
    /\ size(mem) < InitialMemSize + MaxGrow
    /\ mem' = Append(mem, 0)
    /\ UNCHANGED <<last, region, vres, metering, call>>

\* the host function returns to the guest
Return ==
    /\ ~Returned
    /\ last' = Idle
    /\ UNCHANGED <<mem, region, vres, metering, call>>

Next ==
    \/ GetRegion
    \/ SetRegion
    \/ ReadRegion
    \/ MaybeReadRegion
    \/ WriteRegion
    \/ GuestGrow
    \/ Return

Spec == Init /\ [][Next]_vars

----------------------------------------------------------------------------
(* validate_region over every Region *)

InitValidate ==
    /\ region \in [offset : U32, capacity : U32, length : U32]
    /\ vres = <<>>
    /\ mem = <<>>
    /\ last = Idle
    /\ metering = [points |-> 0, exhausted |-> FALSE]
    /\ call = NoCall

Validate ==
    /\ vres = <<>>
    /\ vres' = <<validate_region(region)>>
    /\ UNCHANGED <<region, mem, last, metering, call>>

NextValidate == Validate

SpecValidate == InitValidate /\ [][NextValidate]_vars

----------------------------------------------------------------------------
(* The metering gate and the execution wrapper *)

InitGas ==
    /\ metering = [points |-> 0, exhausted |-> FALSE]
    /\ call = NoCall
    /\ region = NoRegion
    /\ vres = <<>>
    /\ mem = <<>>
    /\ last = Idle

SetGasLeft ==
    \E new \in 0..MaxGas :
        /\ metering' = set_gas_left(metering, new)
        /\ call' = [NoCall EXCEPT !.op = "set_gas_left", !.new = new, !.before = metering]
        /\ UNCHANGED <<region, vres, mem, last>>

GetGasLeft ==
    /\ call' = [NoCall EXCEPT !.op = "get_gas_left", !.gas = get_gas_left(metering),
                              !.before = metering]
    /\ UNCHANGED <<metering, region, vres, mem, last>>

CallFunction ==
    \E name \in Names, cost \in 0..(MaxGas + 1), traps \in BOOLEAN, rv \in ReturnVals :
        LET c == call_function(metering, name, cost, traps, rv) IN
        /\ metering' = c.metering
        /\ call' = [op |-> "call_function", name |-> name, new |-> 0,
                    trapped |-> c.trapped, rv |-> rv, res |-> c.res, gas |-> 0,
                    before |-> metering]
        /\ UNCHANGED <<region, vres, mem, last>>

NextGas ==
    \/ SetGasLeft
    \/ GetGasLeft
    \/ CallFunction

SpecGas == InitGas /\ [][NextGas]_vars

----------------------------------------------------------------------------
(* Region Validator *)

Validated == vres # <<>>

\* C1: validate_region(r) returns Ok if and only if r.offset != 0 and
\* r.length <= r.capacity and r.capacity <= u32::MAX - r.offset; the regions
\* {u32::MAX, 0, 0} and {1, u32::MAX - 1, 0} pass and {u32::MAX, 1, 0} does not.
C1_ValidateIff ==
    Validated =>
        /\ vres[1].ok <=> /\ region.offset # 0
                          /\ region.length <= region.capacity
                          /\ region.capacity <= U32_MAX - region.offset
        /\ region = Region(U32_MAX, 0, 0) => vres[1].ok
        /\ region = Region(1, U32_MAX - 1, 0) => vres[1].ok
        /\ region = Region(U32_MAX, 1, 0) => ~vres[1].ok

C1_Witness ==
    /\ Validated
    /\ region = Region(U32_MAX, 0, 0)
    /\ vres[1] = Ok(Unit)

\* C2: a rejected Region gets the error of the first failing check in the order
\* offset == 0 (ZeroOffset), length > capacity (LengthExceedsCapacity with the
\* region's length and capacity), capacity > u32::MAX - offset (OutOfRange
\* with the region's offset and capacity).
C2_FirstFailingCheck ==
    (Validated /\ ~vres[1].ok) =>
        vres[1].err =
            IF region.offset = 0 THEN [kind |-> "ZeroOffset"]
            ELSE IF region.length > region.capacity
            THEN [kind |-> "LengthExceedsCapacity", length |-> region.length,
                  capacity |-> region.capacity]
            ELSE [kind |-> "OutOfRange", offset |-> region.offset,
                  capacity |-> region.capacity]

C2_Witness ==
    /\ Validated
    /\ region.offset = 0
    /\ region.length > region.capacity
    /\ vres[1] = Err([kind |-> "ZeroOffset"])

----------------------------------------------------------------------------
(* Memory Accessor *)

Ran(op) == last.op = op

\* what get_region(ptr) gave when the operation started
Seen == get_region(last.pre, last.ptr).res

\* [a, a+n) lies wholly inside the memory the operation started with
InMemory(a, n) == Range(a, n) \subseteq 0..(size(last.pre) - 1)

ErrKind(res) == IF res.ok THEN "" ELSE res.err.kind

\* C3: where get_region(ptr) succeeds, read_region(ptr, max_length) fails with
\* RegionTooBig exactly when region.length > max_length, carrying
\* actual = region.length and max = max_length; with max_length >= region.length
\* it fails with no size-related error.
C3_TooBigExactly ==
    (Ran("read_region") /\ Seen.ok) =>
        /\ ErrKind(last.res) = "RegionLengthTooBig" <=> Seen.val.length > last.max_length
        /\ Seen.val.length > last.max_length =>
               last.res = Err([kind |-> "RegionLengthTooBig",
                               actual |-> Seen.val.length, max |-> last.max_length])
        /\ last.max_length >= Seen.val.length =>
               ErrKind(last.res) \notin {"RegionLengthTooBig", "ConversionErr"}

\* C4: where get_region(ptr) succeeds, write_region(ptr, data) fails with
\* RegionTooSmall{capacity: region.capacity, requested: data.len()} exactly when
\* data.len() > region.capacity, whether or not the buffer range can be
\* dereferenced, and without touching the buffer; empty data is never too small.
C4_TooSmallExactly ==
    (Ran("write_region") /\ Seen.ok) =>
        /\ ErrKind(last.res) = "RegionTooSmall" <=> Len(last.data) > Seen.val.capacity
        /\ Len(last.data) > Seen.val.capacity =>
               /\ last.res = Err([kind |-> "RegionTooSmall",
                                  capacity |-> Seen.val.capacity,
                                  requested |-> Len(last.data)])
               /\ last.writes = <<>>
               /\ last.reads = <<[at |-> last.ptr, len |-> REGION_SIZE]>>
        /\ Len(last.data) = 0 => ErrKind(last.res) # "RegionTooSmall"

C4_Witness ==
    /\ Ran("write_region")
    /\ Seen.ok
    /\ Len(last.data) > Seen.val.capacity
    /\ ~InMemory(Seen.val.offset, Seen.val.capacity)
    /\ ErrKind(last.res) = "RegionTooSmall"

\* C5: round trip: once write_region(ptr, data) has succeeded, get_region(ptr)
\* succeeds with length = data.len() and the offset and capacity it had, and
\* read_region(ptr, data.len()) returns data, for every Region accepted, one
\* whose buffer overlaps the record at ptr included.
C5_RoundTrip ==
    (Ran("write_region") /\ last.res.ok) =>
        /\ get_region(mem, last.ptr).res =
               Ok([Seen.val EXCEPT !.length = Len(last.data)])
        /\ read_region(mem, last.ptr, Len(last.data)).res = Ok(Vec(last.data))

\* C8: maybe_read_region(0, n) is Ok(None) and reads no guest memory; for
\* ptr != 0 it is Ok(Some(b)) exactly when read_region(ptr, n) is Ok(b), and
\* read_region's error when that fails.
C8_MaybeRead ==
    Ran("maybe_read_region") =>
        LET r == read_region(last.pre, last.ptr, last.max_length).res IN
        IF last.ptr = 0
        THEN last.res = Ok([none |-> TRUE]) /\ last.reads = <<>>
        ELSE IF r.ok
        THEN last.res = Ok([some |-> r.val])
        ELSE last.res = r

C8_Witness ==
    /\ Ran("maybe_read_region")
    /\ last.ptr = 0
    /\ read_region(last.pre, 0, last.max_length).res.ok
    /\ last.res = Ok([none |-> TRUE])

\* no byte outside the current memory is read or written
InBounds ==
    \A i \in 1..Len(last.reads \o last.writes) :
        LET v == (last.reads \o last.writes)[i] IN InMemory(v.at, v.len)

RecordDerefs ==
    (Ran("get_region") \/ Ran("set_region")) =>
        (~InMemory(last.ptr, REGION_SIZE) =>
             last.res = Err([kind |-> "DerefErr", pointer |-> last.ptr]))

\* C9 as stated: no operation touches an address >= the memory size; get_region
\* and set_region fail with DerefError when the record is not wholly inside
\* memory; read_region fails with DerefError when a validated Region's
\* [offset, offset+length) is not wholly inside memory; write_region fails with
\* DerefError when [offset, offset+capacity) is not wholly inside memory.
C9_AsStated ==
    /\ InBounds
    /\ RecordDerefs
    /\ (Ran("read_region") /\ Seen.ok /\ ~InMemory(Seen.val.offset, Seen.val.length)) =>
           last.res = Err([kind |-> "DerefErr", pointer |-> Seen.val.offset])
    /\ (Ran("write_region") /\ Seen.ok /\ ~InMemory(Seen.val.offset, Seen.val.capacity)) =>
           last.res = Err([kind |-> "DerefErr", pointer |-> Seen.val.offset])

\* C9 amended: as above, but read_region and write_region report DerefError for
\* such a range only when their earlier size check has passed; when it has not,
\* they fail with that check's error, and in no case do they succeed.
C9_Amended ==
    /\ InBounds
    /\ RecordDerefs
    /\ (Ran("read_region") /\ Seen.ok /\ ~InMemory(Seen.val.offset, Seen.val.length)) =>
           /\ ~last.res.ok
           /\ IF last.max_length > U32_MAX THEN ErrKind(last.res) = "ConversionErr"
              ELSE IF Seen.val.length > last.max_length
              THEN ErrKind(last.res) = "RegionLengthTooBig"
              ELSE last.res = Err([kind |-> "DerefErr", pointer |-> Seen.val.offset])
    /\ (Ran("write_region") /\ Seen.ok /\ ~InMemory(Seen.val.offset, Seen.val.capacity)) =>
           IF Len(last.data) > Seen.val.capacity
           THEN ErrKind(last.res) = "RegionTooSmall"
           ELSE last.res = Err([kind |-> "DerefErr", pointer |-> Seen.val.offset])

C9_Witness ==
    /\ Ran("write_region")
    /\ Seen.ok
    /\ ~InMemory(Seen.val.offset, Seen.val.capacity)
    /\ Len(last.data) > 0
    /\ InMemory(Seen.val.offset, Len(last.data))
    /\ last.res = Err([kind |-> "DerefErr", pointer |-> Seen.val.offset])

\* C10: an operation that returns an error leaves guest memory as it was, and
\* get_region, read_region and maybe_read_region never change it.
C10_NoPartialWrites ==
    /\ (~Returned /\ ~last.res.ok) => mem = last.pre
    /\ (Ran("get_region") \/ Ran("read_region") \/ Ran("maybe_read_region")) =>
           mem = last.pre

C10_Witness ==
    /\ Ran("write_region")
    /\ Seen.ok
    /\ Len(last.data) > Seen.val.capacity
    /\ InMemory(Seen.val.offset, Seen.val.capacity)
    /\ Seen.val.capacity > 0
    /\ SubSeq(last.data, 1, Seen.val.capacity) #
           Cells(last.pre, Seen.val.offset, Seen.val.capacity)
    /\ ~last.res.ok
    /\ mem = last.pre

----------------------------------------------------------------------------
(* Metering Gate and Execution Wrapper *)

\* C6: a call_function whose guest function traps returns GasDepletion if the
\* budget is exhausted when the gate is queried after the trap, and the
\* runtime-trap error otherwise; after GasDepletion get_remaining() is 0; a call
\* that returns hands its results through whatever budget remains.
C6_TrapClassified ==
    call.op = "call_function" =>
        /\ call.trapped =>
               call.res = IF metering.exhausted
                          THEN Err([kind |-> "GasDepletion"])
                          ELSE Err([kind |-> "RuntimeErr"])
        /\ ErrKind(call.res) = "GasDepletion" => get_gas_left(metering) = 0
        /\ (call.name \in Exports /\ ~call.trapped) => call.res = Ok(call.rv)

C6_Witness ==
    /\ call.op = "call_function"
    /\ call.trapped
    /\ ~call.before.exhausted
    /\ call.before.points > 0
    /\ call.res = Err([kind |-> "GasDepletion"])
    /\ get_gas_left(metering) = 0

\* C7: right after set_remaining(x), get_remaining() is x; get_remaining() is
\* the remaining count while budget remains and 0 once it is exhausted, and
\* leaves the metering state as it was.
C7_SetThenGet ==
    /\ call.op = "set_gas_left" => get_gas_left(metering) = call.new
    /\ call.op = "get_gas_left" =>
           /\ call.gas = (IF metering.exhausted THEN 0 ELSE metering.points)
           /\ metering = call.before

C7_Witness ==
    /\ call.op = "get_gas_left"
    /\ metering.exhausted
    /\ metering.points > 0
    /\ call.gas = 0

====
